---- MODULE Spec2Model ----
(***************************************************************************)
(* Decoder of the OPUS container format (opus/opus.py): the masked magic   *)
(* prologue and entry directory of FileHeader, the tag classification of   *)
(* FileHeaderEntry, and the self-describing Parameter records with the     *)
(* list reader that runs to the END record.                                *)
(*                                                                         *)
(* A byte is a number in 0..255 and a bytes object a sequence of bytes.    *)
(* A 32-bit unsigned value is the pair <<high 16 bits, low 16 bits>>, so   *)
(* that every 32-bit tag is representable.  A str is the sequence of its   *)
(* ASCII codes, except the fixed names of BINARY_TAGS and the messages.    *)
(***************************************************************************)
EXTENDS Integers, Sequences, FiniteSets, TLC

VARIABLES
    data,        \* the bytes of the source behind the cursor `fin`
    pos,         \* the cursor position of `fin`
    pos0,        \* the cursor position when the running operation began
    pc,          \* where the caller stands
    entries,     \* FileHeader.entries of the decoded header
    parameters,  \* the list read_parameter_list_to_end builds and returns
    result       \* the outcome of the last operation

vars == <<data, pos, pos0, pc, entries, parameters, result>>

None == "None"

Min(a, b) == IF a < b THEN a ELSE b

RECURSIVE BitAnd(_, _)
BitAnd(a, b) ==
    IF a = 0 \/ b = 0 THEN 0
    ELSE (a % 2) * (b % 2) + 2 * BitAnd(a \div 2, b \div 2)

RECURSIVE BitOr(_, _)
BitOr(a, b) ==
    IF a = 0 THEN b
    ELSE IF b = 0 THEN a
    ELSE (IF a % 2 = 1 \/ b % 2 = 1 THEN 1 ELSE 0) + 2 * BitOr(a \div 2, b \div 2)

And32(x, y) == <<BitAnd(x[1], y[1]), BitAnd(x[2], y[2])>>
Or32(x, y) == <<BitOr(x[1], y[1]), BitOr(x[2], y[2])>>
Not32(x) == <<65535 - x[1], 65535 - x[2]>>

RECURSIVE SortedKeys(_)
SortedKeys(S) ==
    IF S = {} THEN <<>>
    ELSE LET k == CHOOSE x \in S : \A y \in S : x <= y
         IN <<k>> \o SortedKeys(S \ {k})

(***************************************************************************)
(* The cursor: fin.read(n) returns the bytes from the position up to n of  *)
(* them, fewer at the end of the data and none at or past it; the position *)
(* moves by the number of bytes returned.                                  *)
(***************************************************************************)
fin_read(d, p, n) ==
    IF p >= Len(d) THEN <<>> ELSE SubSeq(d, p + 1, Min(p + n, Len(d)))

\* a cursor that a read past the end of the data pulls back to the end
fin_tell_bounded(d, p, n) == Min(p + n, Len(d))

fin_tell(d, p, n) == IF p >= Len(d) THEN p ELSE Min(p + n, Len(d))

\* struct.unpack('<I', b)
unpack_I(b) == <<b[3] + 256 * b[4], b[1] + 256 * b[2]>>

Outcome(op, arg, status, msg, value) ==
    [op |-> op, arg |-> arg, status |-> status, msg |-> msg, value |-> value]

NoResult == Outcome("", None, "", "", None)

(***************************************************************************)
(* FileHeaderEntry                                                         *)
(***************************************************************************)
BINARY_TAGS ==
    <<\H0000, \H0405>> :> "S Sc.R" @@
    <<\H0000, \H0406>> :> "S Sc.I" @@
    <<\H0000, \H0407>> :> "S Sc" @@
    <<\H0050, \H0407>> :> "S Sc/multiple" @@
    <<\H0000, \H040b>> :> "R Sc" @@
    <<\H0000, \H0805>> :> "S Ifg.R" @@
    <<\H0000, \H0806>> :> "S Ifg.I" @@
    <<\H0000, \H0807>> :> "S Ifg" @@
    <<\H0050, \H0807>> :> "S Ifg/multiple" @@
    <<\H0000, \H080b>> :> "R Ifg" @@
    <<\H0000, \H0c07>> :> "S PH" @@
    <<\H0000, \H0c0b>> :> "R PH" @@
    <<\H0000, \H100f>> :> "AB" @@
    <<\H0050, \H100f>> :> "AB/multiple" @@
    <<\H0000, \H140f>> :> "TR" @@
    <<\H0050, \H140f>> :> "TR/multiple" @@
    <<\H0000, \H280f>> :> "RAM" @@
    <<\H0000, \H300f>> :> "REFL" @@
    <<\H0000, \H3c0f>> :> "L REFL" @@
    <<\H0050, \H1c00>> :> "Trace/multiple"

PARAMETER_TAG_MASK == <<\H0000, \H0010>>
MULTIPLE_TAG_MASK == <<\H0050, \H0000>>
PARAMETER_UNKNOWN_MASK == <<\H4000, \H0000>>

ENTRY_LIST_TAG == <<\H0000, \H3400>>
HISTORY_TAG == <<\H4068, \H0000>>

\* a _tag that keeps bit 0x40000000
effective_tag_raw(tag) == tag

effective_tag(tag) == And32(tag, Not32(PARAMETER_UNKNOWN_MASK))

\* struct.unpack('<III', entry_binary) and the derived _tag
decode_entry(entry_binary) ==
    LET tag == unpack_I(SubSeq(entry_binary, 1, 4))
    IN [tag |-> tag,
        _tag |-> effective_tag(tag),
        length |-> unpack_I(SubSeq(entry_binary, 5, 8)),
        offset |-> unpack_I(SubSeq(entry_binary, 9, 12))]

name_binary(e) ==
    IF e._tag \in DOMAIN BINARY_TAGS THEN BINARY_TAGS[e._tag] ELSE None

is_entry_list(e) == e.tag = ENTRY_LIST_TAG

is_history(e) == e.tag = HISTORY_TAG

is_binary(e) == e._tag \in DOMAIN BINARY_TAGS

is_multiple(e) == is_binary(e) /\ And32(e.tag, MULTIPLE_TAG_MASK) # <<0, 0>>

\* a companion tag built from _tag, the stray bit lost
parameter_list_tag_cleared(e) == Or32(e._tag, PARAMETER_TAG_MASK)

\* parameter_list_tag asserts is_binary(); the value when the assertion passes
parameter_list_tag(e) == Or32(e.tag, PARAMETER_TAG_MASK)

(***************************************************************************)
(* FileHeader                                                              *)
(***************************************************************************)
MAGIC == <<\H0a, \H0a, \Hfe, \Hfe, 0, 0, 0, 0, \Hff, \Hff, \Hff, \H41,
           \H18, 0, 0, 0, \H28, 0, 0, 0>>

\* a mask that leaves out offset 11 instead of offsets 8 to 10
MMASK_byte11 == <<\Hff, \Hff, \Hff, \Hff, \Hff, \Hff, \Hff, \Hff, \Hff, \Hff,
                  \Hff, \H00, \Hff, \Hff, \Hff, \Hff, \Hff, \Hff, \Hff, \Hff>>

MMASK == <<\Hff, \Hff, \Hff, \Hff, \Hff, \Hff, \Hff, \Hff, \H00, \H00,
           \H00, \Hff, \Hff, \Hff, \Hff, \Hff, \Hff, \Hff, \Hff, \Hff>>

\* FileHeader._get_difference: the dict diff, offs -> (a, b), rendered as the
\* lines "offs: (a, b)" of the returned message in the order of the sorted
\* offsets; the empty sequence stands for the None returned when len(diff) is 0
_get_difference(magic) ==
    LET n == Min(Len(magic), Min(Len(MAGIC), Len(MMASK)))
        diff == {offs \in 0..(n - 1) :
                    BitAnd(MMASK[offs + 1], magic[offs + 1])
                        # BitAnd(MMASK[offs + 1], MAGIC[offs + 1])}
        ks == SortedKeys(diff)
    IN [i \in 1..Len(ks) |-> <<ks[i], magic[ks[i] + 1], MAGIC[ks[i] + 1]>>]

\* the loop `for i in range(number_of_entries)`: each turn reads 12 bytes and
\* decodes them; struct.unpack fails on a short read
RECURSIVE read_entries(_, _, _, _, _)
read_entries(d, p, i, n, acc) ==
    IF ~(n[1] > 0 \/ i < n[2])
    THEN [status |-> "ok", entries |-> acc, pos |-> p]
    ELSE LET b == fin_read(d, p, 12)
             q == fin_tell(d, p, 12)
         IN IF Len(b) # 12
            THEN [status |-> "struct.error", entries |-> acc, pos |-> q]
            ELSE read_entries(d, q, i + 1, n, Append(acc, decode_entry(b)))

\* a decode that reads from where the cursor stands
seek_none(p) == p

\* fin.seek(0)
seek_start(p) == 0

\* FileHeader.from_file(fin)
FileHeader_from_file ==
    /\ pc = "file"
    /\ LET s == seek_start(pos)
           magic == fin_read(data, s, Len(MAGIC))
           p1 == fin_tell(data, s, Len(MAGIC))
           cnt == fin_read(data, p1, 4)
           p2 == fin_tell(data, p1, 4)
       IN IF Len(magic) # Len(MAGIC)
          THEN /\ result' = Outcome("FileHeader.from_file", None, "AssertionError",
                                    "File is too short", None)
               /\ pos' = p1
               /\ pc' = "failed"
               /\ UNCHANGED entries
          ELSE IF _get_difference(magic) # <<>>
          THEN /\ result' = Outcome("FileHeader.from_file", None, "AssertionError",
                                    "MAGIC does not match at", _get_difference(magic))
               /\ pos' = p1
               /\ pc' = "failed"
               /\ UNCHANGED entries
          ELSE IF Len(cnt) # 4
          THEN /\ result' = Outcome("FileHeader.from_file", None, "struct.error",
                                    "unpack requires a buffer of 4 bytes", None)
               /\ pos' = p2
               /\ pc' = "failed"
               /\ UNCHANGED entries
          ELSE LET r == read_entries(data, p2, 0, unpack_I(cnt), <<>>)
               IN IF r.status # "ok"
                  THEN /\ result' = Outcome("FileHeader.from_file", None, "struct.error",
                                            "unpack requires a buffer of 12 bytes", None)
                       /\ pos' = r.pos
                       /\ pc' = "failed"
                       /\ UNCHANGED entries
                  ELSE /\ result' = Outcome("FileHeader.from_file", None, "ok", "", None)
                       /\ pos' = r.pos
                       /\ pc' = "header"
                       /\ entries' = r.entries
    /\ UNCHANGED <<data, pos0, parameters>>

\* FileHeader.get_binary_entry(entry): the list e of the matching entries
binary_matches(es, name) ==
    LET match(i) == is_binary(i) /\ name_binary(i) = name
    IN SelectSeq(es, match)

\* the last match instead of the first
pick_last(e) == e[Len(e)]

\* e[0]
pick_first(e) == e[1]

get_binary_entry(name) ==
    /\ pc = "header"
    /\ LET e == binary_matches(entries, name)
       IN result' = IF Len(e) = 0
                    THEN Outcome("get_binary_entry", name, "RuntimeError",
                                 "entry not found", None)
                    ELSE Outcome("get_binary_entry", name, "ok", "", pick_first(e))
    /\ UNCHANGED <<data, pos, pos0, pc, entries, parameters>>

\* FileHeaderEntry.parameter_list_tag() called on its own
call_parameter_list_tag(entry) ==
    /\ pc = "header"
    /\ result' = IF ~is_binary(entry)
                 THEN Outcome("parameter_list_tag", entry, "AssertionError", "", None)
                 ELSE Outcome("parameter_list_tag", entry, "ok", "",
                              parameter_list_tag(entry))
    /\ UNCHANGED <<data, pos, pos0, pc, entries, parameters>>

\* FileHeader.get_parameter_list_entry(entry): the comprehension evaluates
\* entry.parameter_list_tag(), and with it the assertion, once per directory
\* entry, so never on an empty directory
get_parameter_list_entry(entry) ==
    /\ pc = "header"
    /\ LET match(i) == i.tag = parameter_list_tag(entry)
           e == SelectSeq(entries, match)
       IN result' = IF Len(entries) > 0 /\ ~is_binary(entry)
                    THEN Outcome("get_parameter_list_entry", entry, "AssertionError",
                                 "", None)
                    ELSE IF Len(entries) = 0 \/ Len(e) = 0
                    THEN Outcome("get_parameter_list_entry", entry, "RuntimeError",
                                 "no parameter list for entry found", None)
                    ELSE Outcome("get_parameter_list_entry", entry, "ok", "",
                                 pick_first(e))
    /\ UNCHANGED <<data, pos, pos0, pc, entries, parameters>>

\* the classification predicates of one decoded entry, as the dump tool calls them
classify(entry) ==
    /\ pc = "header"
    /\ result' = Outcome("classify", entry, "ok", "",
                         [is_binary |-> is_binary(entry),
                          is_history |-> is_history(entry),
                          is_entry_list |-> is_entry_list(entry),
                          is_multiple |-> is_multiple(entry),
                          name_binary |-> name_binary(entry)])
    /\ UNCHANGED <<data, pos, pos0, pc, entries, parameters>>

(***************************************************************************)
(* Parameter                                                               *)
(***************************************************************************)
END == <<69, 78, 68>>

IsAscii(b) == \A i \in 1..Len(b) : b[i] < 128

Failure(status, p) == [status |-> status, parameter |-> None, pos |-> p]

\* Parameter.read_head: the head of up to 8 bytes, the code, the checks on
\* bytes 3, 5 and 7 and on the type of END, each in the order of the source,
\* an index past a short head raising IndexError; then _length
read_head(d, p) ==
    LET head == fin_read(d, p, 8)
        q == fin_tell(d, p, 8)
        code == SubSeq(head, 1, Min(3, Len(head)))
        obj(length) == [status |-> "ok",
                        parameter |-> [code |-> code, head |-> head, tail |-> None,
                                       _length |-> length],
                        pos |-> q]
    IN IF ~IsAscii(code) THEN Failure("UnicodeDecodeError", q)
       ELSE IF Len(head) < 4 THEN Failure("IndexError", q)
       ELSE IF head[4] # 0 THEN Failure("AssertionError", q)
       ELSE IF code # END
       THEN IF Len(head) < 7 THEN Failure("IndexError", q)
            ELSE IF head[6] # 0 THEN Failure("AssertionError", q)
            ELSE IF Len(head) < 8 THEN Failure("IndexError", q)
            ELSE IF head[8] # 0 THEN Failure("AssertionError", q)
            ELSE obj(head[7] * 2)
       ELSE IF Len(head) < 5 THEN Failure("IndexError", q)
            ELSE IF head[5] \notin {0, 46} THEN Failure("AssertionError", q)
            ELSE obj(0)

\* Parameter.read_tail: whatever fin.read(self._length) returns
read_tail(d, p, length) == fin_read(d, p, length)

\* Parameter.from_file(fin)
from_file(d, p) ==
    LET h == read_head(d, p)
    IN IF h.status # "ok" THEN h
       ELSE [status |-> "ok",
             parameter |-> [h.parameter EXCEPT
                               !.tail = read_tail(d, h.pos, h.parameter._length)],
             pos |-> fin_tell(d, h.pos, h.parameter._length)]

\* the property type
type(p) == p.head[5]

\* struct.unpack('<i', tail)[0]
unpack_i(b) ==
    b[1] + 256 * b[2] + 65536 * b[3]
        + 16777216 * (IF b[4] >= 128 THEN b[4] - 256 ELSE b[4])

\* bytes.find(0): the index of the first NUL byte, -1 when there is none
find(b) ==
    IF \E i \in 1..Len(b) : b[i] = 0
    THEN (CHOOSE i \in 1..Len(b) : b[i] = 0 /\ \A j \in 1..(i - 1) : b[j] # 0) - 1
    ELSE -1

\* the slice b[0:t], a negative t counting from the end
slice_to(b, t) ==
    IF t < 0
    THEN SubSeq(b, 1, IF Len(b) + t < 0 THEN 0 ELSE Len(b) + t)
    ELSE SubSeq(b, 1, Min(t, Len(b)))

Value(status, msg, value) == [status |-> status, msg |-> msg, value |-> value]

\* an else branch that passes like the END branch
unknown_type_passes(p) == Value("ok", "", None)

\* the else branch: raise RuntimeError('unknown type ...')
unknown_type(p) == Value("RuntimeError", "unknown type", None)

\* Parameter.interpretation_of_tail: an int, the eight bytes of a double, a
\* str, or None
interpretation_of_tail(p) ==
    IF p.code = END THEN Value("ok", "", None)
    ELSE IF type(p) \in {0, 16}
    THEN IF Len(p.tail) # 4 THEN Value("AssertionError", "", None)
         ELSE Value("ok", "", unpack_i(p.tail))
    ELSE IF type(p) = 1
    THEN IF Len(p.tail) # 8 THEN Value("AssertionError", "", None)
         ELSE Value("ok", "", [double |-> p.tail])
    ELSE IF type(p) \in {2, 3, 4}
    THEN LET t == find(p.tail)
             text == slice_to(p.tail, t)
         IN IF ~IsAscii(text) THEN Value("UnicodeDecodeError", "", None)
            ELSE Value("ok", "", text)
    ELSE unknown_type(p)

\* OrderedDict((p.code, p.interpretation_of_tail()) for p in ps): the pairs
\* in the order their codes first occur, a later value replacing an earlier
\* one of the same code; the first interpretation that fails ends it
RECURSIVE ordered_dict(_, _)
ordered_dict(ps, acc) ==
    IF ps = <<>> THEN Value("ok", "", acc)
    ELSE LET p == Head(ps)
             v == interpretation_of_tail(p)
             at == {i \in 1..Len(acc) : acc[i][1] = p.code}
         IN IF v.status # "ok" THEN v
            ELSE IF at = {}
            THEN ordered_dict(Tail(ps), Append(acc, <<p.code, v.value>>))
            ELSE ordered_dict(Tail(ps),
                    [i \in 1..Len(acc) |-> IF i \in at THEN <<p.code, v.value>> ELSE acc[i]])

\* Parameter.from_file(fin) called on its own
Parameter_from_file ==
    /\ pc = "stream"
    /\ LET r == from_file(data, pos)
       IN /\ result' = Outcome("Parameter.from_file", None, r.status, "", r.parameter)
          /\ pos' = r.pos
          /\ pc' = IF r.status = "ok" THEN "parameter" ELSE "failed"
    /\ UNCHANGED <<data, pos0, entries, parameters>>

\* interpretation_of_tail() of the decoded parameter, or of one of a returned list
call_interpretation_of_tail ==
    /\ pc \in {"parameter", "returned"}
    /\ \E p \in (IF pc = "parameter" THEN {result.value}
                 ELSE {parameters[i] : i \in 1..Len(parameters)}) :
          LET v == interpretation_of_tail(p)
          IN result' = Outcome("interpretation_of_tail", p, v.status, v.msg, v.value)
    /\ pc' = "interpreted"
    /\ UNCHANGED <<data, pos, pos0, entries, parameters>>

\* read_parameter_list_to_end(fin), up to the loop
read_parameter_list_to_end ==
    /\ pc = "stream"
    /\ pc' = "list_loop"
    /\ parameters' = <<>>
    /\ result' = Outcome("read_parameter_list_to_end", None, "running", "", None)
    /\ UNCHANGED <<data, pos, pos0, entries>>

\* read_parameter_list_as_dict_to_end(fin), up to the loop of the list read
read_parameter_list_as_dict_to_end ==
    /\ pc = "stream"
    /\ pc' = "dict_loop"
    /\ parameters' = <<>>
    /\ result' = Outcome("read_parameter_list_as_dict_to_end", None, "running", "", None)
    /\ UNCHANGED <<data, pos, pos0, entries>>

\* a loop that breaks before it appends
append_unless_end(ps, p) == IF p.code = END THEN ps ELSE Append(ps, p)

\* parameters.append(p)
append(ps, p) == Append(ps, p)

\* one turn of `while True`: decode, append, break on END and return the
\* list; the mapping is built from the returned list
loop_iteration ==
    /\ pc \in {"list_loop", "dict_loop"}
    /\ \E r \in {from_file(data, pos)} :
          /\ pos' = r.pos
          /\ IF r.status # "ok"
             THEN /\ pc' = "failed"
                  /\ result' = [result EXCEPT !.status = r.status]
                  /\ UNCHANGED parameters
             ELSE /\ parameters' = append(parameters, r.parameter)
                  /\ IF r.parameter.code # END
                     THEN UNCHANGED <<pc, result>>
                     ELSE IF pc = "list_loop"
                     THEN /\ pc' = "returned"
                          /\ result' = [result EXCEPT !.status = "ok"]
                     ELSE \E m \in {ordered_dict(append(parameters, r.parameter), <<>>)} :
                             /\ pc' = IF m.status = "ok" THEN "mapped" ELSE "failed"
                             /\ result' = [result EXCEPT !.status = m.status,
                                                         !.msg = m.msg,
                                                         !.value = m.value]
    /\ UNCHANGED <<data, pos0, entries>>

(***************************************************************************)
(* The sources of the header specification: a 20-byte prologue, the entry  *)
(* count, the directory, with some trailing bytes missing.                 *)
(***************************************************************************)
MaxDiffs == 2      \* prologue offsets that differ at once by a flipped bit
MaxCut == 2        \* trailing bytes missing from a source
MaxEntries == 2    \* directory entries of a source with a varied directory

PrologueLen == 20
Bit == {1, 2, 4, 8, 16, 32, 64, 128}
Offsets == 0..(PrologueLen - 1)
FullRangeOffsets == {8, 9, 10, 11}

Flip(b, bit) == IF (b \div bit) % 2 = 1 THEN b - bit ELSE b + bit

RECURSIVE OffsetSets(_)
OffsetSets(k) ==
    IF k = 0 THEN {{}}
    ELSE LET P == OffsetSets(k - 1) IN P \cup {s \cup {o} : s \in P, o \in Offsets}

Prologues ==
    {[MAGIC EXCEPT ![o + 1] = Flip(MAGIC[o + 1], bit)] : o \in Offsets, bit \in Bit}
    \cup {[MAGIC EXCEPT ![o + 1] = v] : o \in FullRangeOffsets, v \in 0..255}
    \cup {[i \in 1..PrologueLen |-> IF (i - 1) \in S THEN Flip(MAGIC[i], 1) ELSE MAGIC[i]] :
             S \in OffsetSets(MaxDiffs)}

pack_I(u) == <<u[2] % 256, u[2] \div 256, u[1] % 256, u[1] \div 256>>
pack_entry(tag, length, offset) == pack_I(tag) \o pack_I(length) \o pack_I(offset)

RECURSIVE Concat(_)
Concat(ss) == IF ss = <<>> THEN <<>> ELSE Head(ss) \o Concat(Tail(ss))

RECURSIVE SeqsUpTo(_, _)
SeqsUpTo(S, k) ==
    IF k = 0 THEN {<<>>}
    ELSE LET P == SeqsUpTo(S, k - 1) IN P \cup {Append(q, x) : q \in P, x \in S}

AB == <<\H0000, \H100f>>
UNKNOWN_BIT == <<\H4000, \H0000>>
TOP_BIT == <<\H8000, \H0000>>
TEN_BIT == <<\H0000, \H0010>>

\* the entries of the varied directories: binary blocks with and without the
\* stray bit, their parameter lists, an entry list and a history block
DirEntries ==
    {pack_entry(t, <<0, 64>>, <<0, 512>>) :
        t \in {AB, Or32(AB, UNKNOWN_BIT), Or32(AB, TEN_BIT),
               Or32(Or32(AB, UNKNOWN_BIT), TEN_BIT),
               <<\H0050, \H0407>>, <<\H0050, \H0417>>,
               ENTRY_LIST_TAG, HISTORY_TAG}}
    \cup {pack_entry(t, <<0, 32>>, <<1, 1024>>) : t \in {AB, Or32(AB, TEN_BIT)}}

\* the tags of the one-entry directories: every table key, alone and with one
\* more bit, the reserved tags with and without the stray bit, and the ends
TagSamples ==
    DOMAIN BINARY_TAGS
    \cup {Or32(k, b) : k \in DOMAIN BINARY_TAGS, b \in {UNKNOWN_BIT, TOP_BIT, TEN_BIT}}
    \cup {ENTRY_LIST_TAG, Or32(ENTRY_LIST_TAG, UNKNOWN_BIT),
          HISTORY_TAG, And32(HISTORY_TAG, Not32(UNKNOWN_BIT)),
          <<0, 0>>, <<65535, 65535>>, UNKNOWN_BIT}

\* count field and directory bytes: the right count, one too many (a
\* directory cut short), one too few (bytes after the directory), a huge one
Directories ==
    {pack_I(<<0, Len(es)>>) \o Concat(es) : es \in SeqsUpTo(DirEntries, MaxEntries)}
    \cup {pack_I(<<0, Len(es) + 1>>) \o Concat(es) : es \in SeqsUpTo(DirEntries, 1)}
    \cup {pack_I(<<0, 1>>) \o Concat(es) : es \in SeqsUpTo(DirEntries, MaxEntries)}
    \cup {pack_I(<<\H8000, 0>>) \o Concat(es) : es \in SeqsUpTo(DirEntries, 1)}
    \cup {pack_I(<<0, 1>>) \o pack_entry(t, <<0, 8>>, <<0, 504>>) : t \in TagSamples}

SmallDirectories ==
    {<<>>, pack_I(<<0, 0>>), pack_I(<<0, 1>>) \o pack_entry(AB, <<0, 64>>, <<0, 512>>)}

Cut(d, c) == SubSeq(d, 1, Len(d) - Min(c, Len(d)))

HeaderSources ==
    {Cut(m \o t, c) : m \in Prologues, t \in SmallDirectories, c \in 0..MaxCut}
    \cup {MAGIC \o t : t \in Directories}

\* where the cursor stands before the decode: the start, inside the
\* prologue, past the end of the source
Starts(d) == {0, 7, Len(d) + 1}

NameSamples == {"AB", "AB/multiple", "S Sc/multiple", "S Ifg"}

\* the entries handed to the lookups: those of the directory, and two of
\* another header, one binary and one not
ForeignEntries ==
    {decode_entry(pack_entry(t, <<0, 16>>, <<0, 2048>>)) :
        t \in {<<\H4000, \H0807>>, <<\H0000, \H0817>>}}

EntryArgs == {entries[i] : i \in 1..Len(entries)} \cup ForeignEntries

Init ==
    /\ data \in HeaderSources
    /\ pos \in Starts(data)
    /\ pos0 = pos
    /\ pc = "file"
    /\ entries = <<>>
    /\ parameters = <<>>
    /\ result = NoResult

Next ==
    \/ FileHeader_from_file
    \/ \E name \in NameSamples : get_binary_entry(name)
    \/ \E e \in EntryArgs : call_parameter_list_tag(e)
    \/ \E e \in EntryArgs : get_parameter_list_entry(e)
    \/ \E e \in EntryArgs : classify(e)

Spec == Init /\ [][Next]_vars

(***************************************************************************)
(* Properties of the header decode and of the directory lookups            *)
(***************************************************************************)
FromFileDone == result.op = "FileHeader.from_file"

\* the offsets whose byte the decode compares, and those where d deviates
ComparedOffsets == Offsets \ {8, 9, 10}
Deviating(d) == {o \in ComparedOffsets : d[o + 1] # MAGIC[o + 1]}
ReportedOffsets == {result.value[i][1] : i \in 1..Len(result.value)}

\* the source holds its whole entry count and the directory the count announces
DirectoryComplete(d) ==
    /\ Len(d) >= PrologueLen + 4
    /\ d[PrologueLen + 3] = 0
    /\ d[PrologueLen + 4] = 0
    /\ Len(d) >= PrologueLen + 4 + 12 * (d[PrologueLen + 1] + 256 * d[PrologueLen + 2])

MagicMismatch == result.status = "AssertionError" /\ result.msg = "MAGIC does not match at"

\* C1 as stated: on a source of at least 20 bytes the decode succeeds if and
\* only if the prologue agrees with MAGIC under the mask, and otherwise fails
\* with the magic mismatch that reports exactly the deviating offsets.
C1_AsStated ==
    (FromFileDone /\ Len(data) >= PrologueLen) =>
        /\ (result.status = "ok") <=> (Deviating(data) = {})
        /\ (result.status # "ok") => (MagicMismatch /\ ReportedOffsets = Deviating(data))

\* C1, amended: from any starting cursor position and on a source of at least
\* 20 bytes, the decode succeeds if and only if the prologue agrees with MAGIC
\* under the mask and the source holds the whole entry count and directory,
\* and fails with struct.error when only the latter is missing; it fails with
\* the magic mismatch if and only if some compared byte deviates,
\* and the mismatch reports exactly the deviating offsets, in ascending order,
\* each with the byte found and the byte expected.
C1_MagicDecides ==
    (FromFileDone /\ Len(data) >= PrologueLen) =>
        /\ (result.status = "ok") <=> (Deviating(data) = {} /\ DirectoryComplete(data))
        /\ MagicMismatch <=> (Deviating(data) # {})
        /\ (Deviating(data) = {} /\ ~DirectoryComplete(data)) =>
              result.status = "struct.error"
        /\ MagicMismatch =>
              /\ ReportedOffsets = Deviating(data)
              /\ Len(result.value) = Cardinality(Deviating(data))
              /\ \A i \in 1..Len(result.value) :
                    /\ result.value[i][2] = data[result.value[i][1] + 1]
                    /\ result.value[i][3] = MAGIC[result.value[i][1] + 1]
                    /\ i > 1 => result.value[i - 1][1] < result.value[i][1]

\* a decode begun inside the source that reports one flipped bit at its offset
C1_Witness ==
    /\ FromFileDone
    /\ pos0 = 7
    /\ MagicMismatch
    /\ ReportedOffsets = {12}
    /\ data[13] = Flip(MAGIC[13], 8)

\* C2 as stated: a prologue that equals MAGIC at every offset but 11 is
\* accepted whatever byte 11 holds.
C2_AsStated ==
    (/\ FromFileDone
     /\ Len(data) >= PrologueLen
     /\ \A o \in Offsets \ {11} : data[o + 1] = MAGIC[o + 1]
     /\ DirectoryComplete(data)) => result.status = "ok"

\* C2, amended: offsets 8, 9 and 10 are the fully masked ones: a prologue that
\* equals MAGIC at every other offset is accepted whatever bytes 8 to 10 hold,
\* and byte 11 is compared in full, so any value but 0x41 there is rejected
\* with a magic mismatch that names offset 11.
C2_MaskedBytes ==
    /\ (/\ FromFileDone
        /\ Len(data) >= PrologueLen
        /\ \A o \in Offsets \ {8, 9, 10} : data[o + 1] = MAGIC[o + 1]
        /\ DirectoryComplete(data)) => result.status = "ok"
    /\ (/\ FromFileDone
        /\ Len(data) >= PrologueLen
        /\ data[12] # MAGIC[12]) => (MagicMismatch /\ 11 \in ReportedOffsets)

\* a source accepted with a byte other than 0xFF at the masked offset 9
C2_Witness ==
    /\ FromFileDone
    /\ result.status = "ok"
    /\ data[10] = 0
    /\ entries # <<>>

\* the tag with bit 0x40000000 cleared, and with bit 0x10 set
ClearStray(tag) == <<IF (tag[1] \div 16384) % 2 = 1 THEN tag[1] - 16384 ELSE tag[1], tag[2]>>
SetTen(tag) == <<tag[1], IF (tag[2] \div 16) % 2 = 1 THEN tag[2] ELSE tag[2] + 16>>
InTable(tag) == ClearStray(tag) \in DOMAIN BINARY_TAGS

First(S) == CHOOSE i \in S : \A j \in S : i <= j

NamedPositions(name) ==
    {i \in 1..Len(entries) :
        InTable(entries[i].tag) /\ BINARY_TAGS[ClearStray(entries[i].tag)] = name}

\* C5: get_binary_entry(name) returns the first entry in directory order that
\* is binary and named name, also when several match, fails with the not-found
\* error exactly when none matches, and leaves the entries unchanged.
C5_FirstBinaryEntry ==
    /\ [](result.op = "get_binary_entry" =>
            /\ (result.status = "RuntimeError" /\ result.msg = "entry not found")
                  <=> (NamedPositions(result.arg) = {})
            /\ NamedPositions(result.arg) # {} =>
                  /\ result.status = "ok"
                  /\ result.value = entries[First(NamedPositions(result.arg))])
    /\ [][pc = "header" => entries' = entries]_vars

\* two entries carry the name and the first, which differs from the second, is returned
C5_Witness ==
    /\ result.op = "get_binary_entry"
    /\ result.status = "ok"
    /\ NamedPositions(result.arg) = {1, 2}
    /\ entries[1] # entries[2]
    /\ result.value = entries[1]

TaggedPositions(tag) == {i \in 1..Len(entries) : entries[i].tag = tag}

\* C6: for a binary entry e, parameter_list_tag is e.tag | 0x10 on the raw tag
\* and get_parameter_list_entry(e) returns the first directory entry with that
\* raw tag, failing with the not-found error exactly when there is none; for a
\* non-binary e both operations fail.
C6_ParameterListEntry ==
    /\ (result.op = "parameter_list_tag" /\ InTable(result.arg.tag)) =>
          (result.status = "ok" /\ result.value = SetTen(result.arg.tag))
    /\ (result.op = "get_parameter_list_entry" /\ InTable(result.arg.tag)) =>
          /\ (result.status = "RuntimeError"
                /\ result.msg = "no parameter list for entry found")
                <=> (TaggedPositions(SetTen(result.arg.tag)) = {})
          /\ TaggedPositions(SetTen(result.arg.tag)) # {} =>
                /\ result.status = "ok"
                /\ result.value = entries[First(TaggedPositions(SetTen(result.arg.tag)))]
    /\ (result.op \in {"parameter_list_tag", "get_parameter_list_entry"}
          /\ ~InTable(result.arg.tag)) => result.status # "ok"

\* the companion of a binary entry that carries the stray bit is found under
\* the raw tag, second of the directory
C6_Witness ==
    /\ result.op = "get_parameter_list_entry"
    /\ result.status = "ok"
    /\ result.arg.tag = Or32(AB, UNKNOWN_BIT)
    /\ Len(entries) = 2
    /\ result.arg = entries[1]
    /\ result.value = entries[2]

\* C9: at most one of is_binary, is_history and is_entry_list holds of a tag;
\* 0x00003400 is an entry list and nothing else, 0x40680000 is history and
\* nothing else; is_binary holds exactly when the tag with bit 0x40000000
\* cleared is a key of the table, and name_binary is then the table's value
\* and None otherwise.
C9_Classification ==
    result.op = "classify" =>
        LET c == result.value
            t == result.arg.tag
        IN /\ Cardinality({k \in {"b", "h", "l"} :
                              \/ k = "b" /\ c.is_binary
                              \/ k = "h" /\ c.is_history
                              \/ k = "l" /\ c.is_entry_list}) <= 1
           /\ t = <<0, 13312>> => (c.is_entry_list /\ ~c.is_binary /\ ~c.is_history)
           /\ t = <<16488, 0>> => (c.is_history /\ ~c.is_binary /\ ~c.is_entry_list)
           /\ c.is_binary <=> InTable(t)
           /\ c.name_binary = IF InTable(t) THEN BINARY_TAGS[ClearStray(t)] ELSE None

\* a tag that carries the stray bit is classified binary under its table name
C9_Witness ==
    /\ result.op = "classify"
    /\ result.arg.tag = <<16464, 7168>>
    /\ result.value.is_binary
    /\ result.value.name_binary = "Trace/multiple"

(***************************************************************************)
(* The sources of the parameter specification: some records one after the  *)
(* other, with some trailing bytes missing.                                *)
(***************************************************************************)
MaxRecords == 2     \* records of a source
MaxTrim == 3        \* trailing bytes missing from a source

Record(code, b3, ty, b5, half, b7, tail) == code \o <<b3, ty, b5, half, b7>> \o tail

NPT == <<78, 80, 84>>
DXU == <<68, 88, 85>>
FXV == <<70, 88, 86>>

Records ==
    {Record(NPT, 0, 0, 0, 2, 0, <<42, 0, 0, 0>>),
     Record(NPT, 0, 16, 0, 2, 0, <<254, 255, 255, 255>>),
     Record(FXV, 0, 1, 0, 4, 0, <<0, 0, 0, 0, 0, 0, 240, 63>>),
     Record(DXU, 0, 2, 0, 2, 0, <<87, 78, 0, 0>>),
     Record(DXU, 0, 3, 0, 1, 0, <<87, 78>>),
     Record(DXU, 0, 4, 0, 0, 0, <<>>),
     Record(DXU, 0, 2, 0, 1, 0, <<87, 200>>),
     Record(FXV, 0, 5, 0, 1, 0, <<1, 0>>),
     Record(NPT, 0, 0, 0, 1, 0, <<7, 0>>),
     Record(NPT, 1, 0, 0, 0, 0, <<>>),
     Record(NPT, 0, 0, 1, 0, 0, <<>>),
     Record(NPT, 0, 0, 0, 0, 1, <<>>),
     Record(<<200, 80, 84>>, 0, 0, 0, 0, 0, <<>>),
     Record(END, 0, 0, 0, 0, 0, <<>>),
     Record(END, 0, 46, 46, 46, 46, <<>>),
     Record(END, 0, 7, 0, 0, 0, <<>>)}

ParameterSources ==
    {Cut(Concat(rs), c) : rs \in SeqsUpTo(Records, MaxRecords), c \in 0..MaxTrim}

\* where the cursor stands before the read: the start, the second record
\* after a first of eight bytes, past the end of the source
ParameterStarts(d) == {0, 8, Len(d) + 1}

ParamInit ==
    /\ data \in ParameterSources
    /\ pos \in ParameterStarts(data)
    /\ pos0 = pos
    /\ pc = "stream"
    /\ entries = <<>>
    /\ parameters = <<>>
    /\ result = NoResult

ParamNext ==
    \/ Parameter_from_file
    \/ call_interpretation_of_tail
    \/ read_parameter_list_to_end
    \/ read_parameter_list_as_dict_to_end
    \/ loop_iteration

ParamSpec == ParamInit /\ [][ParamNext]_vars

\* the sources of the list reads alone: longer runs of fewer kinds of record
MaxListRecords == 3

ListRecords ==
    {Record(NPT, 0, 0, 0, 2, 0, <<42, 0, 0, 0>>),
     Record(DXU, 0, 3, 0, 1, 0, <<87, 78>>),
     Record(NPT, 0, 0, 0, 0, 1, <<>>),
     Record(END, 0, 0, 0, 0, 0, <<>>),
     Record(END, 0, 46, 46, 46, 46, <<>>)}

ListSources ==
    {Cut(Concat(rs), c) : rs \in SeqsUpTo(ListRecords, MaxListRecords), c \in 0..MaxTrim}

ListInit ==
    /\ data \in ListSources
    /\ pos \in ParameterStarts(data)
    /\ pos0 = pos
    /\ pc = "stream"
    /\ entries = <<>>
    /\ parameters = <<>>
    /\ result = NoResult

ListNext ==
    \/ read_parameter_list_to_end
    \/ read_parameter_list_as_dict_to_end
    \/ loop_iteration

\* the loop of a running read is never suspended: its next turn is taken
ParamLiveSpec == ListInit /\ [][ListNext]_vars /\ WF_vars(loop_iteration)

(***************************************************************************)
(* Properties of the parameter decode and of the list read                 *)
(***************************************************************************)
KnownTypes == {0, 16, 1, 2, 3, 4}

RECURSIVE Bytes(_)
Bytes(ps) == IF ps = <<>> THEN <<>> ELSE Head(ps).head \o Head(ps).tail \o Bytes(Tail(ps))

Consumed == IF pos <= pos0 THEN <<>> ELSE SubSeq(data, pos0 + 1, pos)

\* at the starting position stands a whole record of a code other than END,
\* and right after it a head of code END
OneRecordThenEnd ==
    /\ Len(data) >= pos0 + 8
    /\ SubSeq(data, pos0 + 1, pos0 + 3) # END
    /\ Len(data) >= pos0 + 8 + 2 * data[pos0 + 7] + 8
    /\ SubSeq(data, pos0 + 8 + 2 * data[pos0 + 7] + 1,
                    pos0 + 8 + 2 * data[pos0 + 7] + 3) = END

\* C3: the sequence read_parameter_list_to_end returns holds the records in
\* stream order from the starting position; its last element has code END and
\* no earlier one has; one record of another code followed by an END record
\* gives a sequence of length 2.
C3_ListEndsAtFirstEnd ==
    pc = "returned" =>
        /\ Len(parameters) >= 1
        /\ parameters[Len(parameters)].code = END
        /\ \A i \in 1..(Len(parameters) - 1) : parameters[i].code # END
        /\ \A i \in 1..Len(parameters) :
              parameters[i].code = SubSeq(parameters[i].head, 1, 3)
        /\ Bytes(parameters) = Consumed
        /\ OneRecordThenEnd => Len(parameters) = 2

\* a text record and the degenerate END record after it are returned
C3_Witness ==
    /\ pc = "returned"
    /\ parameters[Len(parameters)].head[5] = 46
    /\ OneRecordThenEnd
    /\ Len(parameters) = 2
    /\ parameters[1].code = DXU
    /\ parameters[2].code = END

UnknownType(p) == p.code # END /\ p.head[5] \notin KnownTypes

\* C4 as stated: the decode of a record of another code than END whose type
\* byte is unknown fails, and a list read that meets one before the END record
\* returns no sequence.
C4_AsStated ==
    /\ (result.op = "interpretation_of_tail" /\ UnknownType(result.arg)) =>
          result.status = "RuntimeError"
    /\ pc = "returned" => \A i \in 1..Len(parameters) : ~UnknownType(parameters[i])

ListComplete == Len(parameters) >= 1 /\ parameters[Len(parameters)].code = END

\* C4, amended: interpretation_of_tail of a record of another code than END
\* whose type byte is none of 0x00, 0x10, 0x01, 0x02, 0x03, 0x04 fails with
\* the unknown-type error; the mapping read read_parameter_list_as_dict_to_end
\* whose list read reached the END record after such a record returns no
\* mapping: it is aborted with an error, the unknown-type error when that
\* record is the first of the list.
C4_UnknownTypeOnInterpretation ==
    /\ (result.op = "interpretation_of_tail" /\ UnknownType(result.arg)) =>
          (result.status = "RuntimeError" /\ result.msg = "unknown type")
    /\ (/\ result.op = "read_parameter_list_as_dict_to_end"
        /\ pc \in {"mapped", "failed"}
        /\ ListComplete
        /\ \E i \in 1..Len(parameters) : UnknownType(parameters[i])) =>
          /\ pc = "failed"
          /\ result.status \in {"RuntimeError", "AssertionError", "UnicodeDecodeError"}
          /\ UnknownType(parameters[1]) =>
                (result.status = "RuntimeError" /\ result.msg = "unknown type")

\* a mapping read whose list holds a record of type 0x05 and the END record
\* ends in the unknown-type error
C4_Witness ==
    /\ result.op = "read_parameter_list_as_dict_to_end"
    /\ pc = "failed"
    /\ ListComplete
    /\ Len(parameters) = 2
    /\ parameters[1].head[5] = 5
    /\ result.status = "RuntimeError"

\* C7: a successful Parameter.from_file yields a tail of the declared length
\* and advances the cursor by 8 plus that length: 2 * head[6] for another code
\* than END, with head bytes 3, 5 and 7 zero, and never a shorter tail; for the
\* code END, of type byte 0x00 or 0x2E, no tail and, the eight bytes of the
\* head being there, an advance of exactly 8.
C7_ExactLength ==
    (result.op = "Parameter.from_file" /\ result.status = "ok") =>
        LET p == result.value
        IN /\ p.head[4] = 0
           /\ IF p.code # END
              THEN /\ Len(p.head) = 8
                   /\ p.head[6] = 0
                   /\ p.head[8] = 0
                   /\ Len(p.tail) = 2 * p.head[7]
                   /\ pos = pos0 + 8 + 2 * p.head[7]
              ELSE /\ p.head[5] \in {0, 46}
                   /\ Len(p.tail) = 0
                   /\ Len(data) >= pos0 + 8 => pos = pos0 + 8

RECURSIVE NulFreePrefix(_)
NulFreePrefix(b) ==
    IF b = <<>> \/ Head(b) = 0 THEN <<>> ELSE <<Head(b)>> \o NulFreePrefix(Tail(b))

\* C8: for a record of another code than END and of type 0x02, 0x03 or 0x04,
\* interpretation_of_tail returns the longest NUL-free prefix of the tail,
\* decoded as ASCII, for every tail of the declared length: also an empty
\* one, and one without a NUL byte, whose prefix is the whole tail.
C8_TextUpToFirstNul ==
    (/\ result.op = "interpretation_of_tail"
     /\ result.arg.code # END
     /\ result.arg.head[5] \in {2, 3, 4}
     /\ Len(result.arg.tail) = 2 * result.arg.head[7]
     /\ IsAscii(NulFreePrefix(result.arg.tail))) =>
        (result.status = "ok" /\ result.value = NulFreePrefix(result.arg.tail))

ListRead == result.op = "read_parameter_list_to_end"

HasEndCode == \E i \in (pos0 + 1)..(Len(data) - 2) : SubSeq(data, i, i + 2) = END

\* C10: on every source and from every starting position the list read
\* terminates: it returns a sequence that ends in an END record or fails with
\* an error, a region without an END record ending in the failure; and the
\* cursor never moves backward while the read runs.
C10_ListReadTerminates ==
    /\ (pc \in {"list_loop", "dict_loop"}) ~> (pc \in {"returned", "mapped", "failed"})
    /\ []((ListRead /\ pc = "returned") =>
             (result.status = "ok" /\ ListComplete /\ HasEndCode))
    /\ []((ListRead /\ pc = "failed") =>
             result.status \in {"IndexError", "AssertionError", "UnicodeDecodeError"})
    /\ [][(pc \in {"list_loop", "dict_loop"}) => (pos' >= pos)]_vars

\* a read over records without an END record fails at the end of the data
C10_Witness ==
    /\ ListRead
    /\ pc = "failed"
    /\ ~HasEndCode
    /\ Len(parameters) = 3
    /\ pos = Len(data)
    /\ result.status = "IndexError"

====
